---------------------------- MODULE Spec2Model ----------------------------
(***************************************************************************)
(* A model of typer_cli/main.py: the Resolution State (State, state,       *)
(* maybe_update_state), the source loader and the application discovery    *)
(* (get_typer_from_state, get_typer_from_module), the lazy attachment of   *)
(* the `run` command to the host group (maybe_add_run_to_cli and the       *)
(* TyperCLIGroup entry points), the completion hook (get_choices) and the  *)
(* output step of the docs command.                                        *)
(*                                                                         *)
(* Optional values (Optional[...] in the source) are sequences of length   *)
(* at most one: None is <<>> and a value v is <<v>>.  The positional       *)
(* argument is a sequence of one-character strings, so that the regular    *)
(* expression of maybe_update_state and str.strip of docs are computed     *)
(* character by character.                                                 *)
(***************************************************************************)
EXTENDS Integers, Sequences, FiniteSets, TLC

VARIABLES
    params,     \* ctx.params of the top-level command: path_or_module, app, func
    state,      \* the module-level State object: app, func, file, module
    commands,   \* cli.commands of the host group: command name -> command object
    namespace,  \* the module object given to get_typer_from_module
    order,      \* iteration order of a set of str in this process (hash seed)
    exited,     \* None while the process runs, else its exit status
    loads,      \* number of calls of get_typer_from_state so far
    calls,      \* number of entry-point calls so far
    last,       \* the latest lazy-augmentation attempt and the first update
    gc,         \* what the latest get_choices call did
    order2,     \* iteration order of a set of str in a second process
    result1,    \* result of get_typer_from_module in the first process
    result2,    \* result of get_typer_from_module in the second process
    docsIn,     \* inputs of the docs command: --name, --output, the rendered body
    written,    \* content of the --output file written by docs
    stdout      \* what docs sent to typer.echo, as it reaches standard output

vars == <<params, state, commands, namespace, order, exited, loads, calls,
          last, gc, order2, result1, result2, docsIn, written, stdout>>

procVars == <<params, state, commands, order, exited, loads, calls, last, gc>>
discVars == <<namespace, order2, result1, result2>>
docsVars == <<docsIn, written, stdout>>

----------------------------------------------------------------------------
(* Bounds of the model.                                                    *)

\* longest positional argument, in characters
MaxLen == 3
\* most entry-point calls in one process
MaxCalls == 3
\* longest rendered documentation body after the heading, in characters
MaxBody == 3

----------------------------------------------------------------------------
(* Optional values and truthiness.                                         *)

None == <<>>
Some(v) == <<v>>

\* `if x:` for an Optional[str] held as a TLA+ string
TruthyStr(opt) == opt # None /\ opt[1] # ""

\* `if x:` for an Optional[str] held as a sequence of characters
TruthyChars(opt) == opt # None /\ opt[1] # <<>>

\* `if state.file:` -- a Path object is always true, None is not
TruthyPath(opt) == opt # None

\* all sequences over S of length at most n
RECURSIVE SeqsUpTo(_, _)
SeqsUpTo(S, n) ==
    IF n = 0 THEN {<<>>}
    ELSE LET shorter == SeqsUpTo(S, n - 1)
         IN  shorter \cup {Append(s, c) : s \in {t \in shorter : Len(t) = n - 1}, c \in S}

----------------------------------------------------------------------------
(* State and the names discovery prefers.                                  *)

default_app_names == <<"app", "cli", "main">>
default_func_names == <<"main", "cli", "app">>

\* State.__init__
EmptyState == [app |-> None, func |-> None, file |-> None, module |-> None]

\* the elements of a tuple, as set(...) builds them
SetOf(seq) == {seq[i] : i \in 1..Len(seq)}


----------------------------------------------------------------------------
(* The loaded namespace.  A module maps each top-level name to the kind of *)
(* object bound to it: "Typer" (an instance of typer.Typer, which is also  *)
(* callable), "func" (callable, not a Typer), "other" (anything else, as   *)
(* the dunder names every module has) or "missing" (not in dir(module)).   *)
(* Objects bound to different names are different objects.                 *)

Names == {"app", "cli", "main", "greet", "hello"}
Kinds == {"missing", "other", "func", "Typer"}
Namespaces == [Names -> Kinds]

\* the names outside both preferred lists
OtherNames == Names \ SetOf(default_app_names)

\* the iteration orders a set of str can have: one per hash seed
SetOrders == {o \in [1..Cardinality(OtherNames) -> OtherNames] :
                 \A i, j \in DOMAIN o : i # j => o[i] # o[j]}

\* getattr(module, name, None)
GetAttr(module, name) == IF name \in DOMAIN module THEN module[name] ELSE "missing"

\* isinstance(obj, typer.Typer)
IsTyper(kind) == kind = "Typer"

\* callable(obj): a Typer instance defines __call__
IsCallable(kind) == kind \in {"func", "Typer"}

\* dir(module)
Dir(module) == {n \in DOMAIN module : module[n] # "missing"}

\* the application object bound to `name`
TyperObj(name) == [kind |-> "Typer", name |-> name]

\* sub_app = typer.Typer(); sub_app.command()(func_obj)
SubApp(name) == [kind |-> "sub_app", name |-> name]

\* the first element of seq that is in S, or None
FirstIn(seq, S) ==
    IF \E i \in 1..Len(seq) : seq[i] \in S
    THEN Some(seq[CHOOSE i \in 1..Len(seq) :
                    seq[i] \in S /\ \A j \in 1..(i - 1) : seq[j] \notin S])
    ELSE None

\* outcomes of a call that may end the process
Return(obj) == [exit |-> None, obj |-> obj]
SysExit(code) == [exit |-> Some(code), obj |-> None]

\* AppOverride without the isinstance check
AppOverride_Unchecked(module, st) == Return(Some(TyperObj(st.app[1])))

\* `if state.app:` -- the object bound to that name, which must be a Typer
AppOverride(module, st) ==
    IF ~IsTyper(GetAttr(module, st.app[1])) THEN SysExit(1)
    ELSE Return(Some(TyperObj(st.app[1])))

\* `if state.func:` -- the object bound to that name, which must be callable
FuncOverride(module, st) ==
    IF ~IsCallable(GetAttr(module, st.func[1])) THEN SysExit(1)
    ELSE Return(Some(SubApp(st.func[1])))

\* DefaultApp going through the names in the order of default_func_names
DefaultApp_FuncNames(module) ==
    FirstIn(default_func_names,
            {n \in Dir(module) : IsTyper(GetAttr(module, n))})

\* `for name in default_app_names:` -- the first of them bound to a Typer
DefaultApp(module) ==
    FirstIn(default_app_names,
            {n \in Dir(module) : IsTyper(GetAttr(module, n))})

\* `for name in local_names_set - set(default_app_names):` -- the first Typer in
\* the order `ord` in which this process iterates the set
AnyApp(module, ord) ==
    FirstIn(ord, {n \in Dir(module) \ SetOf(default_app_names) : IsTyper(module[n])})

\* `for func_name in default_func_names:` -- the first of them that is callable
DefaultFunc(module) ==
    FirstIn(default_func_names,
            {n \in SetOf(default_func_names) : IsCallable(GetAttr(module, n))})

\* `for func_name in local_names_set - set(default_func_names):` -- the first
\* callable in the order `ord` in which this process iterates the set
AnyFunc(module, ord) ==
    FirstIn(ord, {n \in Dir(module) \ SetOf(default_func_names) : IsCallable(module[n])})

\* get_typer_from_module(module) under the State st
GetTyperFromModule(module, st, ord) ==
    IF TruthyStr(st.app) THEN AppOverride(module, st)
    ELSE IF TruthyStr(st.func) THEN FuncOverride(module, st)
    ELSE IF DefaultApp(module) # None THEN Return(Some(TyperObj(DefaultApp(module)[1])))
    ELSE IF AnyApp(module, ord) # None THEN Return(Some(TyperObj(AnyApp(module, ord)[1])))
    ELSE IF DefaultFunc(module) # None THEN Return(Some(SubApp(DefaultFunc(module)[1])))
    ELSE IF AnyFunc(module, ord) # None THEN Return(Some(SubApp(AnyFunc(module, ord)[1])))
    ELSE Return(None)

----------------------------------------------------------------------------
(* The positional argument and maybe_update_state.                         *)

\* characters a positional argument is built from: a letter, a digit, the
\* underscore, the dot and a character that is none of these
Chars == {"a", "1", "_", ".", "/"}

\* the letters of the model
Letters == {"a", "m", "p", "y"}

\* [a-zA-Z_]
IdentStart(c) == c \in Letters \cup {"_"}

\* \w
WordChar(c) == c \in Letters \cup {"1", "_"}

\* the automaton of [a-zA-Z_]\w*(\.[a-zA-Z_]\w*)* from position i of s;
\* at "start" an identifier must begin, at "ident" one has begun
RECURSIVE MatchFrom(_, _, _)
MatchFrom(s, i, at) ==
    IF i > Len(s) THEN at = "ident"
    ELSE IF at = "start" THEN IdentStart(s[i]) /\ MatchFrom(s, i + 1, "ident")
    ELSE IF WordChar(s[i]) THEN MatchFrom(s, i + 1, "ident")
    ELSE s[i] = "." /\ MatchFrom(s, i + 1, "start")

\* re.fullmatch(r"[a-zA-Z_]\w*(\.[a-zA-Z_]\w*)*", path_or_module)
FullMatchModule(s) == MatchFrom(s, 1, "start")

\* s without its trailing slashes
RECURSIVE DropTrailingSlashes(_)
DropTrailingSlashes(s) ==
    IF s # <<>> /\ s[Len(s)] = "/" THEN DropTrailingSlashes(SubSeq(s, 1, Len(s) - 1))
    ELSE s

\* the last component of a path without trailing slashes
RECURSIVE LastComponent(_)
LastComponent(s) ==
    IF s = <<>> \/ s[Len(s)] = "/" THEN <<>>
    ELSE Append(LastComponent(SubSeq(s, 1, Len(s) - 1)), s[Len(s)])

\* what the filesystem can hold at a path: "", "/", "." and ".." and the paths
\* ending in them are directories or nothing, never regular files
FsKinds(path) ==
    IF LastComponent(DropTrailingSlashes(path)) \in {<<>>, <<".">>, <<".", ".">>}
    THEN {"dir", "absent"}
    ELSE {"file", "dir", "absent"}

\* file_path.exists() and file_path.is_file()
IsExistingFile(fs) == fs = "file"

\* app.add_typer(utils_app, name="utils"): the host group before any attachment
InitCommands == [n \in {"utils"} |-> [kind |-> "Typer", name |-> "utils_app"]]

\* nothing attempted and nothing updated yet: `outcome` says how the latest call
\* of maybe_add_run_to_cli ended (or that maybe_update_state ended the process),
\* `before` is cli.commands when it began, `fs` what the latest update found on disk
NoAttempt == [outcome |-> "none", before |-> InitCommands, fs |-> "unset"]

\* the process as the functions of main.py see it
World == [state |-> state, commands |-> commands, exited |-> exited,
          loads |-> loads, last |-> last]

\* maybe_update_state(ctx), with fs what the filesystem holds at the path;
\* state.file holds Path(path_or_module) as the characters it was built from
MaybeUpdateState(w, ctx_params, fs) ==
    LET path_or_module == ctx_params.path_or_module
        invalid == /\ TruthyChars(path_or_module)
                   /\ ~IsExistingFile(fs)
                   /\ ~FullMatchModule(path_or_module[1])
        st1 == IF ~TruthyChars(path_or_module) THEN w.state
               ELSE IF IsExistingFile(fs)
                    THEN [w.state EXCEPT !.file = Some(path_or_module[1])]
                    ELSE [w.state EXCEPT !.module = Some(path_or_module[1])]
        st2 == IF TruthyStr(ctx_params.app) THEN [st1 EXCEPT !.app = ctx_params.app]
               ELSE st1
        st3 == IF TruthyStr(ctx_params.func) THEN [st2 EXCEPT !.func = ctx_params.func]
               ELSE st2
    IN  IF w.exited # None THEN w
        ELSE IF invalid
        THEN [w EXCEPT !.exited = Some(1), !.last.fs = fs,
                       !.last.outcome = "InvalidSource"]
        ELSE [w EXCEPT !.state = st3, !.last.fs = fs]

----------------------------------------------------------------------------
(* The source loader and the lazy attachment of `run`.                     *)

\* a namespace binding only the names app, main and greet
Ns(appKind, mainKind, greetKind) ==
    [n \in Names |-> IF n = "app" THEN appKind
                     ELSE IF n = "main" THEN mainKind
                     ELSE IF n = "greet" THEN greetKind
                     ELSE "missing"]

\* what the source does when it is imported: "nospec" (find_spec finds no such
\* module), "raises" (finding or executing it raises), "exits" (its top-level code
\* ends the process with status 0) or "ok" (it executes and leaves the namespace ns)
Source(load, ns) == [load |-> load, ns |-> ns]

\* importlib.util.spec_from_file_location(name, location) returns a spec only for
\* a location with a suffix importlib has a loader for, .py for a source file
HasSourceSuffix(path) ==
    Len(path) >= 3 /\ SubSeq(path, Len(path) - 2, Len(path)) = <<".", "p", "y">>

\* `spec is None`: the file has no loader, the module is not found, or neither
\* state.file nor state.module is set
SpecIsNone(st, source) ==
    IF TruthyPath(st.file) THEN ~HasSourceSuffix(st.file[1])
    ELSE IF TruthyChars(st.module) THEN source.load = "nospec"
    ELSE TRUE

\* get_typer_from_state; an exception that find_spec or exec_module lets through
\* (a file that is missing or unreadable raises in exec_module) ends the process
\* with status 1, as sys.exit(1) does
GetTyperFromState(st, source, ord) ==
    IF SpecIsNone(st, source) THEN SysExit(1)
    ELSE IF source.load = "exits" THEN SysExit(0)
    ELSE IF source.load # "ok" THEN SysExit(1)
    ELSE GetTyperFromModule(source.ns, st, ord)

\* cli.add_command(click_obj), click_obj.name = "run"
AddCommand(cmds, name, obj) ==
    [n \in DOMAIN cmds \cup {name} |-> IF n = name THEN obj ELSE cmds[n]]

\* how an attempt that called get_typer_from_state ended
AttemptOutcome(st, source, r) ==
    IF r.exit # None
    THEN IF SpecIsNone(st, source) \/ source.load \in {"nospec", "raises"}
         THEN "ImportFailure"
         ELSE IF source.load = "exits" THEN "SourceExited"
         ELSE "InvalidOverrideTarget"
    ELSE IF r.obj # None THEN "attached" ELSE "NoApplicationFound"

\* maybe_add_run_to_cli attaching a command under `run` before it has loaded
\* the source
MaybeAddRunToCli_AttachFirst(w, source, ord) ==
    LET r == GetTyperFromState(w.state, source, ord)
        placeholder == [kind |-> "Typer", name |-> "pending"]
        attempted == [w EXCEPT !.loads = w.loads + 1,
                               !.last.outcome = AttemptOutcome(w.state, source, r),
                               !.last.before = w.commands,
                               !.commands = AddCommand(w.commands, "run", placeholder)]
    IN  IF w.exited # None THEN w
        ELSE IF "run" \in DOMAIN w.commands
        THEN [w EXCEPT !.last.outcome = "present", !.last.before = w.commands]
        ELSE IF ~(TruthyPath(w.state.file) \/ TruthyChars(w.state.module))
        THEN [w EXCEPT !.last.outcome = "nosource", !.last.before = w.commands]
        ELSE IF r.exit # None THEN [attempted EXCEPT !.exited = r.exit]
        ELSE IF r.obj # None
        THEN [attempted EXCEPT !.commands = AddCommand(w.commands, "run", r.obj[1])]
        ELSE attempted

\* maybe_add_run_to_cli(cli)
MaybeAddRunToCli(w, source, ord) ==
    LET r == GetTyperFromState(w.state, source, ord)
        attempted == [w EXCEPT !.loads = w.loads + 1,
                               !.last.outcome = AttemptOutcome(w.state, source, r),
                               !.last.before = w.commands]
    IN  IF w.exited # None THEN w
        ELSE IF "run" \in DOMAIN w.commands
        THEN [w EXCEPT !.last.outcome = "present", !.last.before = w.commands]
        ELSE IF ~(TruthyPath(w.state.file) \/ TruthyChars(w.state.module))
        THEN [w EXCEPT !.last.outcome = "nosource", !.last.before = w.commands]
        ELSE IF r.exit # None THEN [attempted EXCEPT !.exited = r.exit]
        ELSE IF r.obj # None
        THEN [attempted EXCEPT !.commands = AddCommand(w.commands, "run", r.obj[1])]
        ELSE attempted

\* TyperCLIGroup.maybe_add_run(ctx): maybe_update_state(ctx), then
\* maybe_add_run_to_cli(self).  (Drawing the intermediate value from a one-element
\* set makes TLC compute it once.)
MaybeAddRun(w, ctx_params, fs, source, ord) ==
    CHOOSE w2 \in {MaybeAddRunToCli(w1, source, ord) :
                      w1 \in {MaybeUpdateState(w, ctx_params, fs)}} : TRUE

----------------------------------------------------------------------------
(* The environment of a process: the filesystem and the source on it.  Both *)
(* can change between two calls, so every call draws what it finds.        *)

\* the positional arguments a command line can give
Args == SeqsUpTo(Chars, MaxLen)

\* the positional argument of a process of the model: none, the empty string, a
\* module name, the name of a source file (a dotted identifier too), and a path
\* that is no identifier
ProcArgs == {None, Some(<<>>), Some(<<"a">>), Some(<<"m", ".", "p", "y">>),
             Some(<<"/", "a">>)}

\* the sources a process of the model meets
ProcSources ==
    {Source("nospec", Ns("missing", "missing", "missing")),
     Source("raises", Ns("missing", "missing", "missing")),
     Source("exits", Ns("missing", "missing", "missing"))}
    \cup {Source("ok", Ns(a, m, "missing")) :
             a \in {"missing", "Typer"}, m \in {"missing", "func"}}

\* what the filesystem can hold at the path of the positional argument when an
\* entry point is called
FsNow ==
    IF params.path_or_module = None THEN {"absent"}
    ELSE FsKinds(params.path_or_module[1])

----------------------------------------------------------------------------
(* The entry points of the host group, the callback and get_choices.       *)

\* the values a process takes from one step of main.py
Becomes(w) ==
    /\ state' = w.state
    /\ commands' = w.commands
    /\ exited' = w.exited
    /\ loads' = w.loads
    /\ last' = w.last

\* an entry point can be called: the process runs
CanCall == exited = None /\ calls < MaxCalls

\* TyperCLIGroup.list_commands
ListCommands ==
    /\ CanCall
    /\ \E fs \in FsNow, source \in ProcSources :
          \E w \in {MaybeAddRun(World, params, fs, source, order)} : Becomes(w)
    /\ calls' = calls + 1
    /\ UNCHANGED <<params, order, gc, discVars, docsVars>>

\* TyperCLIGroup.get_command
GetCommand ==
    /\ CanCall
    /\ \E fs \in FsNow, source \in ProcSources :
          \E w \in {MaybeAddRun(World, params, fs, source, order)} : Becomes(w)
    /\ calls' = calls + 1
    /\ UNCHANGED <<params, order, gc, discVars, docsVars>>

\* TyperCLIGroup.invoke
Invoke ==
    /\ CanCall
    /\ \E fs \in FsNow, source \in ProcSources :
          \E w \in {MaybeAddRun(World, params, fs, source, order)} : Becomes(w)
    /\ calls' = calls + 1
    /\ UNCHANGED <<params, order, gc, discVars, docsVars>>

\* callback: the body of the top-level command
Callback ==
    /\ CanCall
    /\ \E fs \in FsNow :
          \E w \in {MaybeUpdateState(World, params, fs)} : Becomes(w)
    /\ calls' = calls + 1
    /\ UNCHANGED <<params, order, gc, discVars, docsVars>>

\* the words after the top-level parameters on a completion request
CompletionArgs == {<<>>, <<"run">>, <<"utils">>, <<"nope">>}

\* resolve_ctx(cli, prog_name, args): with a word left, the group's get_command
\* is asked for it, and the context of the command it returns has a parent
ResolveCtx(w, args, ctx_params, fs, source, ord) ==
    IF args = <<>> THEN [w |-> w, parent_is_none |-> TRUE, hooked |-> FALSE]
    ELSE CHOOSE r \in {[w |-> w1,
                        parent_is_none |-> args[1] \notin DOMAIN w1.commands,
                        hooked |-> TRUE] :
                          w1 \in {MaybeAddRun(w, ctx_params, fs, source, ord)}} : TRUE

\* an application is there to be found: a source is configured, it loads, and
\* discovery returns an application
Discoverable(st, source, ord) ==
    /\ TruthyPath(st.file) \/ TruthyChars(st.module)
    /\ \E r \in {GetTyperFromState(st, source, ord)} : r.exit = None /\ r.obj # None

\* no completion request yet
NoChoices == [called |-> FALSE, delegated |-> FALSE, parent_is_none |-> FALSE,
              hooked |-> FALSE, stepped |-> FALSE, run_attached |-> FALSE,
              discoverable |-> FALSE]

\* StepsItself without the test of ctx.parent
StepsItself_Always(r) == r.w.exited = None

\* `if ctx.parent is None:` of get_choices, for the context r that resolve_ctx
\* returned (nothing more runs once the process has exited)
StepsItself(r) == r.w.exited = None /\ r.parent_is_none

\* get_choices after resolve_ctx returned r: the update and the augmentation when
\* the context is the outermost one
GetChoicesStep(r, ctx_params, fs, source, ord) ==
    IF StepsItself(r) THEN MaybeAddRun(r.w, ctx_params, fs, source, ord) ELSE r.w

\* what a completion request did, at the call of original_get_choices: `stepped`
\* says that get_choices itself ran the update and the augmentation, `hooked` that
\* resolve_ctx reached them through get_command
Delegation(r, w2, source, ord) ==
    [called |-> TRUE,
     delegated |-> w2.exited = None,
     parent_is_none |-> r.parent_is_none,
     hooked |-> r.hooked,
     stepped |-> StepsItself(r),
     run_attached |-> w2.exited = None /\ "run" \in DOMAIN w2.commands,
     discoverable |-> w2.exited = None /\ Discoverable(w2.state, source, ord)]

\* get_choices(cli, prog_name, args, incomplete), up to and including the call of
\* original_get_choices
GetChoicesResult(w, args, ctx_params, fs, source, ord) ==
    CHOOSE res \in
        UNION {{[w |-> w2, gc |-> Delegation(r, w2, source, ord)] :
                   w2 \in {GetChoicesStep(r, ctx_params, fs, source, ord)}} :
                      r \in {ResolveCtx(w, args, ctx_params, fs, source, ord)}} : TRUE

GetChoices ==
    /\ CanCall
    /\ \E args \in CompletionArgs, fs \in FsNow, source \in ProcSources :
          \E res \in {GetChoicesResult(World, args, params, fs, source, order)} :
             Becomes(res.w) /\ gc' = res.gc
    /\ calls' = calls + 1
    /\ UNCHANGED <<params, order, discVars, docsVars>>

----------------------------------------------------------------------------
(* Discovery in two processes, and the docs command.                       *)

\* get_typer_from_module not called yet
NotRun == [done |-> FALSE, exit |-> None, obj |-> None]

\* the result of a call of get_typer_from_module
Ran(r) == [done |-> TRUE, exit |-> r.exit, obj |-> r.obj]

\* get_typer_from_module(module) in the first process
DiscoverFirst ==
    /\ ~result1.done
    /\ result1' = Ran(GetTyperFromModule(namespace, state, order))
    /\ UNCHANGED <<procVars, namespace, order2, result2, docsVars>>

\* get_typer_from_module(module) in a second process, on the same namespace
DiscoverSecond ==
    /\ ~result2.done
    /\ result2' = Ran(GetTyperFromModule(namespace, state, order2))
    /\ UNCHANGED <<procVars, namespace, order2, result1, docsVars>>

\* str.isspace
WhiteSpace == {" ", "\n", "\t"}

RECURSIVE LStrip(_)
LStrip(s) == IF s # <<>> /\ s[1] \in WhiteSpace THEN LStrip(Tail(s)) ELSE s

RECURSIVE RStrip(_)
RStrip(s) ==
    IF s # <<>> /\ s[Len(s)] \in WhiteSpace THEN RStrip(SubSeq(s, 1, Len(s) - 1))
    ELSE s

\* str.strip()
Strip(s) == RStrip(LStrip(s))

\* typer.echo(message): the message and a newline
Echo(message) == message \o <<"\n">>

\* get_docs_for_click(obj=click_obj, ctx=ctx, name=name): the heading line built
\* from --name or obj.name (the quote stands for the backquote around the name),
\* then the sections the command tree gives, here `body`
GetDocsForClick(name, obj_name, body) ==
    LET command_name == IF name # <<>> THEN name
                        ELSE IF obj_name # None THEN obj_name[1] ELSE <<>>
        title == IF command_name # <<>> THEN <<"'">> \o command_name \o <<"'">>
                 ELSE <<"C", "L", "I">>
    IN  <<"#">> \o <<" ">> \o title \o <<"\n", "\n">> \o body

\* f"Docs saved to: {output}"
DocsSavedTo(output) == <<"D", "o", "c", "s", ":", " ">> \o output

\* the docs command of utils_app
Docs ==
    /\ exited = None
    /\ stdout = None
    /\ \E source \in ProcSources :
       LET typer_obj == GetTyperFromState(state, source, order)
           docs == GetDocsForClick(docsIn.name, docsIn.obj_name, docsIn.body)
           clean_docs == Strip(docs) \o <<"\n">>
       IN  /\ loads' = loads + 1
           /\ IF typer_obj.exit # None
              THEN exited' = typer_obj.exit /\ UNCHANGED <<written, stdout>>
              ELSE IF typer_obj.obj = None
              THEN exited' = Some(1) /\ UNCHANGED <<written, stdout>>
              ELSE /\ exited' = exited
                   /\ IF TruthyPath(docsIn.output)
                      THEN /\ written' = Some(clean_docs)
                           /\ stdout' = Some(Echo(DocsSavedTo(docsIn.output[1])))
                      ELSE /\ written' = written
                           /\ stdout' = Some(Echo(clean_docs))
    /\ UNCHANGED <<params, state, commands, order, calls, last, gc,
                   discVars, docsIn>>

----------------------------------------------------------------------------
(* Specifications.                                                         *)

NoParams == [path_or_module |-> None, app |-> None, func |-> None]
NoDocs == [name |-> <<>>, obj_name |-> None, output |-> None, body |-> <<>>]

\* a process: the command line is parsed, State() is fresh, the host group holds
\* what main.py attaches at import
Init ==
    /\ params \in [path_or_module : ProcArgs,
                   app : {None, Some("app")},
                   func : {None, Some("main")}]
    /\ state = EmptyState
    /\ commands = InitCommands
    /\ namespace = Ns("missing", "missing", "missing")
    /\ order \in SetOrders
    /\ exited = None
    /\ loads = 0
    /\ calls = 0
    /\ last = NoAttempt
    /\ gc = NoChoices
    /\ order2 = order
    /\ result1 = NotRun
    /\ result2 = NotRun
    /\ docsIn = NoDocs
    /\ written = None
    /\ stdout = None

Next ==
    \/ ListCommands
    \/ GetCommand
    \/ Invoke
    \/ Callback
    \/ GetChoices

Spec == Init /\ [][Next]_vars

\* the positional argument alone: every argument up to MaxLen characters, with
\* the callback and one entry point of the group
InitArgs ==
    /\ params \in [path_or_module : {Some(a) : a \in Args},
                   app : {None},
                   func : {None}]
    /\ state = EmptyState
    /\ commands = InitCommands
    /\ namespace = Ns("missing", "missing", "missing")
    /\ order \in SetOrders
    /\ exited = None
    /\ loads = 0
    /\ calls = 0
    /\ last = NoAttempt
    /\ gc = NoChoices
    /\ order2 = order
    /\ result1 = NotRun
    /\ result2 = NotRun
    /\ docsIn = NoDocs
    /\ written = None
    /\ stdout = None

NextArgs ==
    \/ Callback
    \/ Invoke

SpecArgs == InitArgs /\ [][NextArgs]_vars

\* discovery alone: a namespace, the overrides, and the hash seeds of two runs
InitDiscover ==
    /\ params = NoParams
    /\ state \in [app : {None} \cup {Some(n) : n \in {"app", "main", "greet", "nope"}},
                  func : {None} \cup {Some(n) : n \in {"app", "main", "greet", "nope"}},
                  file : {Some(<<"m", ".", "p", "y">>)},
                  module : {None}]
    /\ commands = InitCommands
    /\ namespace \in Namespaces
    /\ order \in SetOrders
    /\ exited = None
    /\ loads = 0
    /\ calls = 0
    /\ last = NoAttempt
    /\ gc = NoChoices
    /\ order2 \in SetOrders
    /\ result1 = NotRun
    /\ result2 = NotRun
    /\ docsIn = NoDocs
    /\ written = None
    /\ stdout = None

NextDiscover ==
    \/ DiscoverFirst
    \/ DiscoverSecond

SpecDiscover == InitDiscover /\ [][NextDiscover]_vars

\* characters of a rendered text: a visible one and two kinds of whitespace
DocChars == {"x", " ", "\n"}

\* the docs command alone, after the callback stored the file
InitDocs ==
    /\ params = [NoParams EXCEPT !.path_or_module = Some(<<"m", ".", "p", "y">>)]
    /\ state = [EmptyState EXCEPT !.file = Some(<<"m", ".", "p", "y">>)]
    /\ commands = InitCommands
    /\ namespace = Ns("missing", "missing", "missing")
    /\ order \in SetOrders
    /\ exited = None
    /\ loads = 0
    /\ calls = 0
    /\ last = NoAttempt
    /\ gc = NoChoices
    /\ order2 = order
    /\ result1 = NotRun
    /\ result2 = NotRun
    /\ docsIn \in [name : {<<>>, <<"x">>, <<" ">>},
                   obj_name : {None, Some(<<"x">>)},
                   output : {None, Some(<<"x">>)},
                   body : SeqsUpTo(DocChars, MaxBody)]
    /\ written = None
    /\ stdout = None

NextDocs == Docs

SpecDocs == InitDocs /\ [][NextDocs]_vars

----------------------------------------------------------------------------
(* Properties.                                                             *)

\* C1: over any sequence of entry-point calls, get_typer_from_state runs at most
\* once in the life of the process, also when the first run found no application.
C1_LoadsAtMostOnce == loads <= 1

\* what the spec requires of the first update, for a positional argument p that
\* met `fs` on the filesystem
FirstUpdateAsSpecified(p, fs) ==
    IF fs = "file" THEN state.file # None /\ state.module = None
    ELSE IF FullMatchModule(p) THEN state.module = Some(p) /\ state.file = None
    ELSE exited = Some(1) /\ loads = 0

\* C2: after the first update from the empty State, whatever positional argument
\* was given: an existing regular file sets file and leaves module unset; otherwise
\* a dotted identifier sets module and leaves file unset; otherwise the process has
\* exited with a non-zero status and nothing was loaded.
C2_FirstUpdate ==
    (calls = 1 /\ params.path_or_module # None)
        => FirstUpdateAsSpecified(params.path_or_module[1], last.fs)

\* C3: at most one of state.file and state.module is set, in every reachable state.
C3_AtMostOneSource == ~(state.file # None /\ state.module # None)

\* C4: an attempt that attaches nothing leaves cli.commands as it was; after a
\* failed import or a wrong override target the process has exited with a non-zero
\* status, and after a discovery that found nothing it still runs.
C4_FailedAttemptKeepsCommands ==
    /\ last.outcome \in {"ImportFailure", "InvalidOverrideTarget"}
          => commands = last.before /\ exited # None /\ exited[1] # 0
    /\ last.outcome = "NoApplicationFound"
          => commands = last.before /\ exited = None

\* a wrong --app target ended the process and `run` was not attached
C4_Witness ==
    /\ last.outcome = "InvalidOverrideTarget"
    /\ exited = Some(1)
    /\ commands = InitCommands

\* what C5 requires of a discovery result r when state.app is set
DecidedByApp(r) ==
    IF IsTyper(GetAttr(namespace, state.app[1]))
    THEN r.exit = None /\ r.obj = Some(TyperObj(state.app[1]))
    ELSE r.exit # None /\ r.exit[1] # 0 /\ r.obj = None

\* C5: with state.app set, discovery returns exactly the object bound to that name
\* when it is a Typer and otherwise ends the process with a non-zero status,
\* whatever state.func and the other names are.
C5_AppNameDecides ==
    \A r \in {result1, result2} : (r.done /\ TruthyStr(state.app)) => DecidedByApp(r)

\* --app names a Typer bound to a non-preferred name while --func names a callable
\* and `app` is a Typer too: the --app object is returned
C5_Witness ==
    /\ result1.done
    /\ state.app = Some("greet")
    /\ state.func = Some("main")
    /\ namespace["greet"] = "Typer"
    /\ namespace["main"] = "func"
    /\ namespace["app"] = "Typer"
    /\ result1.obj = Some(TyperObj("greet"))

NoOverrides == state.app = None /\ state.func = None

\* what C6 requires of a discovery result r
AppFromNamespace(r) ==
    /\ r.exit = None
    /\ r.obj # None
    /\ r.obj[1].kind = "Typer"
    /\ namespace[r.obj[1].name] = "Typer"
    /\ r.obj[1].name = (IF namespace["app"] = "Typer" THEN "app"
                        ELSE IF namespace["cli"] = "Typer" THEN "cli"
                        ELSE IF namespace["main"] = "Typer" THEN "main"
                        ELSE r.obj[1].name)

\* C6: without overrides, a namespace holding an application yields an application
\* of the namespace, never a wrapped callable, and the one bound to the first of
\* app, cli, main that is an application when there is one.
C6_PreferredApp ==
    \A r \in {result1, result2} :
        (r.done /\ NoOverrides /\ \E n \in Names : namespace[n] = "Typer")
            => AppFromNamespace(r)

\* `cli` and a non-preferred name are applications and `main` is a callable: the
\* application bound to `cli` is returned
C6_Witness ==
    /\ result2.done
    /\ NoOverrides
    /\ namespace["app"] = "func"
    /\ namespace["cli"] = "Typer"
    /\ namespace["main"] = "func"
    /\ namespace["hello"] = "Typer"
    /\ result2.obj = Some(TyperObj("cli"))

\* the first of main, cli, app that is callable in the namespace, or None
FirstPreferredCallable ==
    FirstIn(default_func_names, {n \in Names : IsCallable(namespace[n])})

\* C7: without overrides and without an application, discovery wraps the callable
\* bound to the first of main, cli, app that is callable; when none is, it wraps a
\* callable of the remaining names, the same one in every run (a stable order).
C7_PreferredOrStableCallable ==
    (/\ result1.done /\ result2.done /\ NoOverrides
     /\ \A n \in Names : namespace[n] # "Typer"
     /\ \E n \in Names : namespace[n] = "func")
        => IF FirstPreferredCallable # None
           THEN /\ result1.obj = Some(SubApp(FirstPreferredCallable[1]))
                /\ result2.obj = Some(SubApp(FirstPreferredCallable[1]))
           ELSE \E n \in OtherNames :
                   /\ namespace[n] = "func"
                   /\ result1.obj = Some(SubApp(n))
                   /\ result2.obj = Some(SubApp(n))

\* C8: two calls of discovery on the same namespace contents with the same
\* overrides choose the same object.
C8_Deterministic ==
    (result1.done /\ result2.done) => result1 = result2

\* what docs produced as documentation: the file when --output is given, else
\* what reached standard output
DocsOutput == IF docsIn.output # None THEN written[1] ELSE stdout[1]

\* exactly one trailing newline, preceded by a character that is not whitespace
EndsWithOneNewline(text) ==
    /\ Len(text) >= 2
    /\ text[Len(text)] = "\n"
    /\ text[Len(text) - 1] \notin WhiteSpace

\* C9: the documentation output ends with exactly one newline preceded by a
\* character that is not whitespace, in the file and on standard output alike.
C9_OneTrailingNewline ==
    stdout # None => EndsWithOneNewline(DocsOutput)

\* C10: when get_choices calls original_get_choices, the update and the
\* augmentation have run in this request, so `run` is attached if an application
\* is there to be found; and get_choices runs them itself only for a context
\* without a parent.
C10_AugmentedBeforeDelegation ==
    /\ gc.delegated => (gc.hooked \/ gc.stepped)
    /\ (gc.delegated /\ gc.discoverable) => gc.run_attached
    /\ gc.stepped => gc.parent_is_none
    /\ (gc.delegated /\ gc.parent_is_none) => gc.stepped

\* a request that resolved to a sub-command: get_choices did not run the step,
\* get_command did, and `run` is attached at the delegation
C10_Witness ==
    /\ gc.delegated
    /\ ~gc.parent_is_none
    /\ ~gc.stepped
    /\ gc.hooked
    /\ gc.discoverable
    /\ gc.run_attached

============================================================================
